---- MODULE Spec2Model ----
(***************************************************************************)
(* TelegramSearchAgent: the message relevance filtering and delivery       *)
(* pipeline of src/monitor.py (TelegramChannelMonitor), the relevance      *)
(* oracle client of src/ai.py (MistralAIProcessor) and the two file-backed *)
(* stores src/channel_store.py and src/query_store.py.                     *)
(*                                                                         *)
(* Text that the code inspects character by character (the oracle reply)   *)
(* is a sequence of one-character strings; names and queries that the code *)
(* only compares or copies are TLA+ strings.                               *)
(***************************************************************************)
EXTENDS Integers, Sequences, FiniteSets, TLC

VARIABLES
    console,             \* encoding of sys.stdout: "utf8" or "legacy"
    oracleCfg,           \* what MistralAIProcessor.__init__ finds
    enabled,             \* MistralAIProcessor.enabled
    bot_configured,      \* self.bot_token and self.user_chat_id are both set
    user_entity,         \* self.user_entity: "none" or "me"
    user_prompt,         \* self.user_prompt, read once in __init__
    mon,                 \* position of run_monitor
    connected,           \* self.client.is_connected()
    monitored_channels,  \* self.monitored_channels
    channelsFile,        \* monitored_channels.json
    queryFile,           \* user_query.json
    handler,             \* one record per message_handler task
    probe,               \* one direct call of an operation on its own
    store                \* the callers of the two stores: calls, results, reads

vars == <<console, oracleCfg, enabled, bot_configured, user_entity, user_prompt,
          mon, connected, monitored_channels, channelsFile, queryFile, handler, probe,
          store>>

----------------------------------------------------------------------------
(* Bounds *)

\* longest run of whitespace put before and after an oracle reply
MaxPad == 1

----------------------------------------------------------------------------
(* str.strip(), str.upper(), str.startswith() as ai.py uses them *)

Whitespace == {" ", "\t", "\n", "\r"}

UpperChar(c) ==
    CASE c = "a" -> "A" [] c = "b" -> "B" [] c = "c" -> "C" [] c = "d" -> "D"
      [] c = "e" -> "E" [] c = "f" -> "F" [] c = "g" -> "G" [] c = "h" -> "H"
      [] c = "i" -> "I" [] c = "j" -> "J" [] c = "k" -> "K" [] c = "l" -> "L"
      [] c = "m" -> "M" [] c = "n" -> "N" [] c = "o" -> "O" [] c = "p" -> "P"
      [] c = "q" -> "Q" [] c = "r" -> "R" [] c = "s" -> "S" [] c = "t" -> "T"
      [] c = "u" -> "U" [] c = "v" -> "V" [] c = "w" -> "W" [] c = "x" -> "X"
      [] c = "y" -> "Y" [] c = "z" -> "Z" [] OTHER -> c

Upper(s) == [i \in 1..Len(s) |-> UpperChar(s[i])]

RECURSIVE LStrip(_)
LStrip(s) == IF s # <<>> /\ Head(s) \in Whitespace THEN LStrip(Tail(s)) ELSE s

RECURSIVE RStrip(_)
RStrip(s) ==
    IF s # <<>> /\ s[Len(s)] \in Whitespace THEN RStrip(SubSeq(s, 1, Len(s) - 1)) ELSE s

Strip(s) == RStrip(LStrip(s))

StartsWith(s, p) == Len(s) >= Len(p) /\ SubSeq(s, 1, Len(p)) = p

NOT_RELEVANT == <<"N", "O", "T", " ", "R", "E", "L", "E", "V", "A", "N", "T">>
RELEVANT == <<"R", "E", "L", "E", "V", "A", "N", "T">>

----------------------------------------------------------------------------
(* MistralAIProcessor (src/ai.py) *)

\* What __init__ can find: the langchain import worked or not, an API key is
\* present or not, building the model and the prompt template raised or not.
OracleCfgs ==
    { [langchain |-> TRUE,  api_key |-> TRUE,  ctor_ok |-> TRUE],
      [langchain |-> FALSE, api_key |-> TRUE,  ctor_ok |-> TRUE],
      [langchain |-> TRUE,  api_key |-> FALSE, ctor_ok |-> TRUE],
      [langchain |-> TRUE,  api_key |-> TRUE,  ctor_ok |-> FALSE] }

Configured(cfg) == cfg.langchain /\ cfg.api_key /\ cfg.ctor_ok

\* mutant of MistralInit: a missing API key does not disable the processor
MistralInitNoKeyCheck(cfg) ==
    IF ~cfg.langchain THEN FALSE
    ELSE IF ~cfg.ctor_ok THEN FALSE
    ELSE TRUE

\* MistralAIProcessor.__init__: the value of self.enabled
MistralInit(cfg) ==
    IF ~cfg.langchain THEN FALSE
    ELSE IF ~cfg.api_key THEN FALSE
    ELSE IF ~cfg.ctor_ok THEN FALSE
    ELSE TRUE

\* What chain.ainvoke can do.  kind "raise": the call raises (service
\* unreachable, API error); "text": response.content is the string raw;
\* "nocontent": the response has no content attribute and str(response) is
\* raw; "nontext": response.content is a list of parts and str() renders it
\* in brackets.
StrOfResponse(out) ==
    IF out.kind = "nontext" THEN <<"[">> \o out.raw \o <<"]">> ELSE out.raw

ResponseText(out) == Upper(Strip(StrOfResponse(out)))

\* mutant of ParseVerdict: the RELEVANT test comes first and any reply that
\* does not start with it is taken as not relevant
ParseVerdictStrict(response_text) ==
    IF StartsWith(response_text, RELEVANT) THEN "RELEVANT" ELSE "NOT_RELEVANT"

\* ai.py lines 105-110: "UNKNOWN" is the branch that logs the unexpected
\* format before it returns True
ParseVerdict(response_text) ==
    IF StartsWith(response_text, NOT_RELEVANT) THEN "NOT_RELEVANT"
    ELSE IF StartsWith(response_text, RELEVANT) THEN "RELEVANT"
    ELSE "UNKNOWN"

\* mutant of OutboundCalls: a call that raised is made once more
OutboundCallsWithRetry(out) == IF out.kind = "raise" THEN 2 ELSE 1

\* ai.py lines 95-100: chain.ainvoke is awaited once, outside any loop, and
\* the except branch returns at once
OutboundCalls(out) == 1

\* mutant of IsMessageRelevant: the except branch returns False
IsMessageRelevantFailClosed(en, out) ==
    IF ~en THEN [result |-> TRUE, net |-> 0, verdict |-> "DISABLED"]
    ELSE IF out.kind = "raise" THEN [result |-> FALSE, net |-> 1, verdict |-> "FAILED"]
    ELSE LET v == ParseVerdict(ResponseText(out))
         IN  [result |-> (v # "NOT_RELEVANT"), net |-> 1, verdict |-> v]

\* is_message_relevant: the returned bool, the number of outbound calls and
\* the branch that produced the result
IsMessageRelevant(en, out) ==
    IF ~en THEN [result |-> TRUE, net |-> 0, verdict |-> "DISABLED"]
    ELSE IF out.kind = "raise"
      THEN [result |-> TRUE, net |-> OutboundCalls(out), verdict |-> "FAILED"]
    ELSE LET v == ParseVerdict(ResponseText(out))
         IN  [result |-> (v # "NOT_RELEVANT"), net |-> OutboundCalls(out), verdict |-> v]

----------------------------------------------------------------------------
(* The stores (src/channel_store.py, src/query_store.py) *)

Names == {"TestsTal", "Hadashot"}

\* channel_store._get_default_channels
DefaultChannels == {"TestsTal"}

\* mutant of LoadChannels: an empty stored list is taken for a missing one
LoadChannelsEmptyIsDefault(f) ==
    IF f.st = "ok" /\ f.channels # {} THEN f.channels ELSE DefaultChannels

\* channel_store._load_channels: the stored set, the default when the file
\* does not exist or cannot be parsed
LoadChannels(f) == IF f.st = "ok" THEN f.channels ELSE DefaultChannels

\* channel_store._save_channels: the whole document is replaced
SaveChannels(channels) == [st |-> "ok", channels |-> channels]

\* channel_store.get_monitored_channels
GetMonitoredChannels(f) == LoadChannels(f)

\* A query is a sequence of characters.  EAcute stands for a character
\* outside ASCII; UTF-8 writes it as the two bytes xC3 xA9.
EAcute == "<e-acute>"
Q1 == <<"q", "1">>
Q2 == <<"q", "2">>
Queries == {Q1, Q2}
NoQuery == <<>>

\* query_store.get_default_query
DefaultQuery == <<"F", "i", "n", "d", " ", "a", "l", "l", " ", "m", "e", "s", "s", "a", "g", "e", "s", " ", "t", "h", "a", "t", " ", "h", "a", "v", "e", " ", "w", "o", "r", "d", "s", " ", "o", "n", " ", "i", "t", ".">>

RECURSIVE Utf8Encode(_)

\* open(..., encoding='utf-8'): the bytes of a text
Utf8Encode(chars) ==
    IF chars = <<>> THEN <<>>
    ELSE (IF Head(chars) = EAcute THEN <<"xC3", "xA9">> ELSE <<Head(chars)>>)
         \o Utf8Encode(Tail(chars))

RECURSIVE Utf8Decode(_)

\* reading with encoding='utf-8': the text of the bytes, or a decoding error
Utf8Decode(bytes) ==
    IF bytes = <<>> THEN [ok |-> TRUE, chars |-> <<>>]
    ELSE IF Head(bytes) = "xC3"
      THEN IF Len(bytes) >= 2 /\ bytes[2] = "xA9"
             THEN LET r == Utf8Decode(SubSeq(bytes, 3, Len(bytes)))
                  IN  [ok |-> r.ok, chars |-> <<EAcute>> \o r.chars]
             ELSE [ok |-> FALSE, chars |-> <<>>]
    ELSE IF Head(bytes) = "xA9" THEN [ok |-> FALSE, chars |-> <<>>]
    ELSE LET r == Utf8Decode(Tail(bytes))
         IN  [ok |-> r.ok, chars |-> <<Head(bytes)>> \o r.chars]

RECURSIVE JsonEscapeRaw(_)

\* mutant of JsonEscape: quotes and backslashes are written as they are
JsonEscapeRaw(chars) ==
    IF chars = <<>> THEN <<>>
    ELSE (IF Head(chars) = "\n" THEN <<"\\", "n">> ELSE <<Head(chars)>>)
         \o JsonEscapeRaw(Tail(chars))

RECURSIVE JsonEscape(_)

\* json.dump(..., ensure_ascii=False): the inside of a string literal
JsonEscape(chars) ==
    IF chars = <<>> THEN <<>>
    ELSE (CASE Head(chars) = "\"" -> <<"\\", "\"">>
            [] Head(chars) = "\\" -> <<"\\", "\\">>
            [] Head(chars) = "\n" -> <<"\\", "n">>
            [] OTHER -> <<Head(chars)>>)
         \o JsonEscape(Tail(chars))

RECURSIVE JsonString(_)

\* json.load on the inside of a string literal, up to the closing quote:
\* the value and what follows the quote, or an error
JsonString(chars) ==
    IF chars = <<>> THEN [ok |-> FALSE, value |-> <<>>, rest |-> <<>>]
    ELSE IF Head(chars) = "\"" THEN [ok |-> TRUE, value |-> <<>>, rest |-> Tail(chars)]
    ELSE IF Head(chars) \in {"\n", "\t", "\r"}
      THEN [ok |-> FALSE, value |-> <<>>, rest |-> <<>>]
    ELSE IF Head(chars) = "\\"
      THEN IF Len(chars) >= 2 /\ chars[2] \in {"\"", "\\", "/", "n", "t", "r"}
             THEN LET c == CASE chars[2] = "n" -> "\n"
                             [] chars[2] = "t" -> "\t"
                             [] chars[2] = "r" -> "\r"
                             [] OTHER -> chars[2]
                      r == JsonString(SubSeq(chars, 3, Len(chars)))
                  IN  [ok |-> r.ok, value |-> <<c>> \o r.value, rest |-> r.rest]
             ELSE [ok |-> FALSE, value |-> <<>>, rest |-> <<>>]
    ELSE LET r == JsonString(Tail(chars))
         IN  [ok |-> r.ok, value |-> <<Head(chars)>> \o r.value, rest |-> r.rest]

\* json.dump({'query': query}, f, ensure_ascii=False, indent=2): the text
\* before and after the string literal
DocPrefix == <<"{", "\n", " ", " ", "\"", "q", "u", "e", "r", "y", "\"", ":", " ", "\"">>
DocSuffix == <<"\n", "}">>

\* query_store.set_current_query: the bytes of a complete write
JsonDumpQuery(q) == Utf8Encode(DocPrefix \o JsonEscape(q) \o <<"\"">> \o DocSuffix)

\* query_store.get_current_query lines 12-14: json.load and data.get on a
\* file that set_current_query wrote, wholly or in part
JsonLoadQuery(bytes) ==
    LET d == Utf8Decode(bytes)
    IN  IF ~d.ok \/ ~StartsWith(d.chars, DocPrefix) THEN [ok |-> FALSE, value |-> <<>>]
        ELSE LET r == JsonString(SubSeq(d.chars, Len(DocPrefix) + 1, Len(d.chars)))
             IN  IF r.ok /\ r.rest = DocSuffix THEN [ok |-> TRUE, value |-> r.value]
                 ELSE [ok |-> FALSE, value |-> <<>>]

AbsentFile == [st |-> "absent", bytes |-> <<>>]

\* mutant of GetCurrentQuery: what was read is returned even when it could
\* not be parsed
GetCurrentQueryNoDefault(f) ==
    IF f.st = "absent" THEN DefaultQuery ELSE JsonLoadQuery(f.bytes).value

\* query_store.get_current_query
GetCurrentQuery(f) ==
    IF f.st = "absent" THEN DefaultQuery
    ELSE LET data == JsonLoadQuery(f.bytes)
         IN  IF data.ok THEN data.value ELSE DefaultQuery

\* query_store.set_current_query: the file after a successful write
SetCurrentQuery(q) == [st |-> "present", bytes |-> JsonDumpQuery(q)]

\* mutant of AddChannelCall: a name that is already stored is saved again
\* and reported as added
AddChannelCallAlways(f, n, io) ==
    IF io = "ok"
      THEN [file |-> SaveChannels(LoadChannels(f) \cup {n}), result |-> TRUE]
    ELSE IF io = "open_fails" THEN [file |-> f, result |-> FALSE]
    ELSE [file |-> [st |-> "partial", channels |-> {}], result |-> FALSE]

\* channel_store.add_channel: the file afterwards and the returned bool; io
\* says whether open() and json.dump() of _save_channels work
AddChannelCall(f, n, io) ==
    IF n \in LoadChannels(f) THEN [file |-> f, result |-> FALSE]
    ELSE IF io = "ok"
      THEN [file |-> SaveChannels(LoadChannels(f) \cup {n}), result |-> TRUE]
    ELSE IF io = "open_fails" THEN [file |-> f, result |-> FALSE]
    ELSE [file |-> [st |-> "partial", channels |-> {}], result |-> FALSE]

\* channel_store.remove_channel: the file afterwards and the returned bool
RemoveChannelCall(f, n, io) ==
    IF n \notin LoadChannels(f) THEN [file |-> f, result |-> FALSE]
    ELSE IF io = "ok"
      THEN [file |-> SaveChannels(LoadChannels(f) \ {n}), result |-> TRUE]
    ELSE IF io = "open_fails" THEN [file |-> f, result |-> FALSE]
    ELSE [file |-> [st |-> "partial", channels |-> {}], result |-> FALSE]

\* channel_store.add_channel, reached from bot_handler.add_channel_handler
AddChannel(n) ==
    /\ AddChannelCall(channelsFile, n, "ok").result
    /\ channelsFile' = AddChannelCall(channelsFile, n, "ok").file
    /\ UNCHANGED <<console, oracleCfg, enabled, bot_configured, user_entity,
                   user_prompt, mon, connected, monitored_channels, queryFile,
                   handler, probe, store>>

\* channel_store.remove_channel, reached from bot_handler.remove_channel_handler
RemoveChannel(n) ==
    /\ RemoveChannelCall(channelsFile, n, "ok").result
    /\ channelsFile' = RemoveChannelCall(channelsFile, n, "ok").file
    /\ UNCHANGED <<console, oracleCfg, enabled, bot_configured, user_entity,
                   user_prompt, mon, connected, monitored_channels, queryFile,
                   handler, probe, store>>

\* query_store.set_current_query, reached from bot_handler.set_query
SetQuery(q) ==
    /\ queryFile' = SetCurrentQuery(q)
    /\ UNCHANGED <<console, oracleCfg, enabled, bot_configured, user_entity,
                   user_prompt, mon, connected, monitored_channels, channelsFile,
                   handler, probe, store>>

----------------------------------------------------------------------------
(* TelegramChannelMonitor (src/monitor.py): data *)

\* an attribute the object does not have, and an attribute that is None
Missing == "<missing>"
NoneVal == "<none>"

\* "Hadashot" stands for a Hebrew channel title, the two marks for the emoji
\* that monitor.py prints; none of them can be encoded by a legacy console
EmojiLink == "<emoji-link>"
EmojiSent == "<emoji-sent>"
NonAscii == {"Hadashot", EmojiLink, EmojiSent}

\* the chats an event can come from: a public channel, a private channel
\* with a Hebrew title and no handle, and a user (no title attribute)
Chats ==
    { [title |-> "TestsTal", username |-> "tests_tal"],
      [title |-> "Hadashot", username |-> NoneVal],
      [title |-> Missing,    username |-> "TestsTal"] }

\* message.text of an event
Texts == {NoneVal, "", "deal"}

\* what chain.ainvoke returns to a handler
HandlerReplies ==
    { [kind |-> "raise",   raw |-> <<>>],
      [kind |-> "text",    raw |-> RELEVANT],
      [kind |-> "text",    raw |-> <<" ", "n", "o", "t", " ", "r", "e", "l", "e", "v", "a", "n", "t", ".", "\n">>],
      [kind |-> "text",    raw |-> <<"Y", "E", "S">>],
      [kind |-> "nontext", raw |-> NOT_RELEVANT] }

NoReply == [kind |-> "none", raw |-> <<>>]

\* print(): on a console that cannot encode the string it raises
\* UnicodeEncodeError
PrintRaises(s) == console = "legacy" /\ s \in NonAscii

\* monitor.py line 312
ChatName(chat) ==
    IF chat.title # Missing THEN chat.title
    ELSE IF chat.username # Missing THEN chat.username
    ELSE "Unknown"

\* mutant of OracleText: the placeholder of the notification is used
OracleTextMediaPlaceholder(text) ==
    IF text \in {NoneVal, ""} THEN "[Media/File/Sticker/Other content]" ELSE text

\* monitor.py lines 333-335
OracleText(text) == IF text \in {NoneVal, ""} THEN "[Non-text content]" ELSE text

\* monitor.py line 110
NotificationText(text) ==
    IF text \in {NoneVal, ""} THEN "[Media/File/Sticker/Other content]" ELSE text

\* monitor.py line 108
NotificationChannel(chat) ==
    IF chat.title # Missing THEN chat.title ELSE "Unknown Channel"

\* monitor.py lines 321 and 443: str.encode("ascii", "replace"), used for the
\* log record only
AsciiReplace(s) == IF s \in NonAscii THEN "????" ELSE s

\* mutant of HandlerMember: the test is dropped and every chat is processed
HandlerMemberAlways(chat_name, cached) == TRUE

\* monitor.py line 330: the membership test of the handler
HandlerMember(chat_name, cached) == chat_name \in cached

\* mutant of HandlerQuery: the query cached in __init__ is used
HandlerQueryCached(cached, file) == cached

\* monitor.py line 342: the query the handler passes to the Oracle
HandlerQuery(cached, file) == GetCurrentQuery(file)

\* the exceptions a step of the handler can raise
Exceptions == {"UnicodeEncodeError", "NetworkError"}

\* mutant of SendCatches: the try block of send_message_via_bot is missing
SendCatchesNothing(exc) == FALSE

\* monitor.py line 179: except Exception in send_message_via_bot
SendCatches(exc) == exc \in Exceptions

\* monitor.py line 261: except Exception in forward_message_to_self
ForwardCatches(exc) == exc \in Exceptions

\* mutant of HandlerCatches: only encoding errors are caught
HandlerCatchesEncoding(exc) == exc = "UnicodeEncodeError"

\* monitor.py line 377: except Exception at the top of the handler
HandlerCatches(exc) == exc \in Exceptions

IdleHandler ==
    [pc |-> "idle", chat |-> [title |-> Missing, username |-> Missing], text |-> NoneVal,
     chat_name |-> Missing, member |-> "unset", in_registry |-> "unset",
     oracle_text |-> Missing, query |-> NoQuery, reply |-> NoReply,
     verdict |-> "unset", relevant |-> "unset", oracle_calls |-> 0, net_calls |-> 0,
     dispatch_calls |-> 0, post_calls |-> 0, fallback_calls |-> 0,
     primary |-> "unset", fallback |-> "unset", sent |-> "unset",
     note_query |-> NoQuery, note_text |-> Missing, note_channel |-> Missing,
     error |-> "none", after_error |-> FALSE]

Handlers == DOMAIN handler

Bool(b) == IF b THEN "yes" ELSE "no"

----------------------------------------------------------------------------
(* TelegramChannelMonitor: run_monitor *)

RECURSIVE AddLoopAborts(_, _, _)

\* mutant of AddLoop: the first lookup that fails ends the pass
AddLoopAborts(todo, found, added) ==
    IF todo = {} THEN added
    ELSE LET channel == CHOOSE c \in todo : TRUE
         IN  IF channel \in found
               THEN AddLoopAborts(todo \ {channel}, found, added \cup {channel})
               ELSE added

RECURSIVE AddLoop(_, _, _)

\* monitor.py lines 287-301: one turn of the loop per configured name; a
\* lookup that raises or returns nothing is caught and the loop goes on
AddLoop(todo, found, added) ==
    IF todo = {} THEN added
    ELSE LET channel == CHOOSE c \in todo : TRUE
         IN  IF channel \in found
               THEN AddLoop(todo \ {channel}, found, added \cup {channel})
               ELSE AddLoop(todo \ {channel}, found, added)

\* add_channels_to_monitor: the names whose entity lookup succeeded; found is
\* the set of names the transport can resolve
AddChannelsToMonitor(channels, found) == AddLoop(channels, found, {})

\* mutant of BannerRaises: the banner is printed on every console
BannerNeverRaises == FALSE

\* monitor.py line 479: the first line run_monitor prints has an emoji in it
BannerRaises == PrintRaises(EmojiLink)

\* mutant of AfterFinally: the client is left as it is
AfterFinallyNoDisconnect(is_connected) == is_connected

\* monitor.py lines 511-514, the finally block of run_monitor: a client that
\* is connected is disconnected; the value is is_connected() afterwards
AfterFinally(is_connected) == FALSE

\* run_monitor up to the point where it waits in its loop: start(), the
\* banner, clear(), add_channels_to_monitor(), setup_message_handler()
RunMonitorBody(channels, start_ok, found) ==
    /\ mon = "constructed"
    /\ IF ~start_ok
         THEN /\ mon' = "failed"
              /\ \E c \in BOOLEAN : connected' = AfterFinally(c)
              /\ UNCHANGED <<user_entity, monitored_channels>>
         ELSE IF BannerRaises
         THEN /\ mon' = "failed"
              /\ connected' = AfterFinally(TRUE)
              /\ user_entity' = "me"
              /\ UNCHANGED monitored_channels
         ELSE /\ user_entity' = "me"
              /\ monitored_channels' = AddChannelsToMonitor(channels, found)
              /\ IF AddChannelsToMonitor(channels, found) = {}
                   THEN mon' = "exited" /\ connected' = AfterFinally(TRUE)
                   ELSE mon' = "running" /\ connected' = TRUE
    /\ UNCHANGED <<console, oracleCfg, enabled, bot_configured, user_prompt,
                   channelsFile, queryFile, handler, probe>>

\* run_monitor called with the list of names, as example_usage.py does
RunMonitor(channels, start_ok, found) ==
    /\ RunMonitorBody(channels, start_ok, found)
    /\ UNCHANGED store

\* the connection drops or the process is interrupted: the loop of
\* run_monitor ends, the finally block disconnects, and the event loop
\* cancels the handler tasks that are still suspended
Stop ==
    /\ mon = "running"
    /\ mon' = "exited"
    /\ \E c \in BOOLEAN : connected' = AfterFinally(c)
    /\ handler' = [h \in Handlers |->
                     IF handler[h].pc \in {"idle", "done", "raised"}
                       THEN handler[h]
                       ELSE [handler[h] EXCEPT !.pc = "cancelled"]]
    /\ UNCHANGED <<console, oracleCfg, enabled, bot_configured, user_entity,
                   user_prompt, monitored_channels, channelsFile, queryFile, probe, store>>

----------------------------------------------------------------------------
(* TelegramChannelMonitor: message_handler and the dispatch it drives *)

\* an exception reaches the top of message_handler
Caught(rec, exc) ==
    IF HandlerCatches(exc)
      THEN [rec EXCEPT !.pc = "done", !.error = exc]
      ELSE [rec EXCEPT !.pc = "raised", !.error = exc]

\* monitor.py lines 366-369: the dispatch returned, the outcome is printed
Finish(rec, sent) ==
    LET r == [rec EXCEPT !.sent = Bool(sent)]
    IN  IF PrintRaises(EmojiSent) THEN Caught(r, "UnicodeEncodeError")
        ELSE [r EXCEPT !.pc = "done"]

\* forward_message_to_self up to its await
ForwardToSelf(rec) ==
    LET r == [rec EXCEPT !.fallback_calls = @ + 1]
    IN  IF user_entity = "none" THEN Finish([r EXCEPT !.fallback = "failed"], FALSE)
        ELSE [r EXCEPT !.pc = "forward", !.fallback = "pending"]

\* send_message_via_bot up to its first await
SendViaBot(rec) ==
    LET r == [rec EXCEPT !.dispatch_calls = @ + 1]
    IN  IF ~bot_configured THEN ForwardToSelf(r)
        ELSE [r EXCEPT !.pc = "sender", !.primary = "pending"]

\* mutant of PrimaryFailed: a failed primary send goes on to the fallback
PrimaryFailedFallsBack(rec) == ForwardToSelf([rec EXCEPT !.primary = "failed"])

\* send_message_via_bot lines 176-186: the POST answered with another status
\* than 200, or something raised and was caught; False is returned
PrimaryFailed(rec) == Finish([rec EXCEPT !.primary = "failed"], FALSE)

\* mutant of AfterOracle: the verdict is overridden and every message goes on
\* to the dispatch
AfterOracleAlwaysDispatch(rec, out) ==
    LET res == IsMessageRelevant(enabled, out)
    IN  [rec EXCEPT !.reply = out,
                    !.net_calls = @ + res.net,
                    !.verdict = res.verdict,
                    !.relevant = Bool(res.result),
                    !.pc = "details"]

\* is_message_relevant returned (or returned at once, the Oracle disabled):
\* monitor.py lines 352-371 up to the await of process_new_message
AfterOracle(rec, out) ==
    LET res == IsMessageRelevant(enabled, out)
    IN  [rec EXCEPT !.reply = out,
                    !.net_calls = @ + res.net,
                    !.verdict = res.verdict,
                    !.relevant = Bool(res.result),
                    !.pc = IF res.result THEN "details" ELSE "done"]

\* a NewMessage event: message_handler starts and awaits event.get_chat()
Arrive(h, chat, text) ==
    /\ mon = "running"
    /\ handler[h].pc \in {"idle", "done"}
    /\ handler' = [handler EXCEPT ![h] =
                     [IdleHandler EXCEPT !.pc = "get_chat", !.chat = chat, !.text = text,
                                         !.after_error = (handler[h].error # "none")]]
    /\ UNCHANGED <<console, oracleCfg, enabled, bot_configured, user_entity, user_prompt,
                   mon, connected, monitored_channels, channelsFile, queryFile, probe, store>>

\* monitor.py lines 311-350: get_chat returned or raised; name, membership
\* test, text, query, and the call of is_message_relevant
Resolve(h, ok) ==
    /\ handler[h].pc = "get_chat"
    /\ LET rec == handler[h]
           name == ChatName(rec.chat)
           r1 == [rec EXCEPT !.chat_name = name]
           r2 == [r1 EXCEPT !.member = Bool(HandlerMember(name, monitored_channels)),
                            !.in_registry = Bool(name \in LoadChannels(channelsFile))]
           r3 == [r2 EXCEPT !.oracle_text = OracleText(rec.text)]
           r4 == [r3 EXCEPT !.query = HandlerQuery(user_prompt, queryFile),
                            !.oracle_calls = @ + 1]
       IN  handler' = [handler EXCEPT ![h] =
             IF ~ok THEN Caught(rec, "NetworkError")
             ELSE IF PrintRaises(name) THEN Caught(r1, "UnicodeEncodeError")
             ELSE IF ~HandlerMember(name, monitored_channels) THEN [r2 EXCEPT !.pc = "done"]
             ELSE IF PrintRaises(r3.oracle_text) THEN Caught(r3, "UnicodeEncodeError")
             ELSE IF enabled THEN [r4 EXCEPT !.pc = "oracle"]
             ELSE AfterOracle(r4, NoReply)]
    /\ UNCHANGED <<console, oracleCfg, enabled, bot_configured, user_entity, user_prompt,
                   mon, connected, monitored_channels, channelsFile, queryFile, probe, store>>

\* chain.ainvoke returned or raised
OracleReturn(h, out) ==
    /\ handler[h].pc = "oracle"
    /\ handler' = [handler EXCEPT ![h] = AfterOracle(handler[h], out)]
    /\ UNCHANGED <<console, oracleCfg, enabled, bot_configured, user_entity, user_prompt,
                   mon, connected, monitored_channels, channelsFile, queryFile, probe, store>>

\* process_new_message: message.get_sender() returned or raised; whatever
\* happens inside is caught there; then send_message_via_bot is called
Details(h) ==
    /\ handler[h].pc = "details"
    /\ handler' = [handler EXCEPT ![h] = SendViaBot(handler[h])]
    /\ UNCHANGED <<console, oracleCfg, enabled, bot_configured, user_entity, user_prompt,
                   mon, connected, monitored_channels, channelsFile, queryFile, probe, store>>

\* send_message_via_bot lines 114-171: get_sender returned or raised; the
\* notification is formatted and the POST is issued
Sender(h, ok) ==
    /\ handler[h].pc = "sender"
    /\ handler' = [handler EXCEPT ![h] =
         IF ~ok THEN
             IF SendCatches("NetworkError")
               THEN PrimaryFailed(handler[h])
               ELSE Caught([handler[h] EXCEPT !.primary = "failed"], "NetworkError")
         ELSE [handler[h] EXCEPT !.note_query = GetCurrentQuery(queryFile),
                                 !.note_text = NotificationText(handler[h].text),
                                 !.note_channel = NotificationChannel(handler[h].chat),
                                 !.post_calls = @ + 1,
                                 !.pc = "post"]]
    /\ UNCHANGED <<console, oracleCfg, enabled, bot_configured, user_entity, user_prompt,
                   mon, connected, monitored_channels, channelsFile, queryFile, probe, store>>

HttpOutcomes == {"200", "500", "raise"}

\* monitor.py line 172: response.status_code == 200
Delivered(status) == status = "200"

\* send_message_via_bot lines 171-181: the POST returned or raised
Post(h, status) ==
    /\ handler[h].pc = "post"
    /\ handler' = [handler EXCEPT ![h] =
         IF Delivered(status)
           THEN Finish([handler[h] EXCEPT !.primary = "ok"], TRUE)
         ELSE IF status = "raise" /\ ~SendCatches("NetworkError")
           THEN Caught([handler[h] EXCEPT !.primary = "failed"], "NetworkError")
         ELSE PrimaryFailed(handler[h])]
    /\ UNCHANGED <<console, oracleCfg, enabled, bot_configured, user_entity, user_prompt,
                   mon, connected, monitored_channels, channelsFile, queryFile, probe, store>>

\* forward_message_to_self lines 253-263: forward_messages returned or raised
Forward(h, ok) ==
    /\ handler[h].pc = "forward"
    /\ handler' = [handler EXCEPT ![h] =
         IF ok THEN Finish([handler[h] EXCEPT !.fallback = "ok"], TRUE)
         ELSE IF ForwardCatches("NetworkError")
           THEN Finish([handler[h] EXCEPT !.fallback = "failed"], FALSE)
         ELSE Caught([handler[h] EXCEPT !.fallback = "failed"], "NetworkError")]
    /\ UNCHANGED <<console, oracleCfg, enabled, bot_configured, user_entity, user_prompt,
                   mon, connected, monitored_channels, channelsFile, queryFile, probe, store>>

----------------------------------------------------------------------------
(* The monitor with the control surface beside it *)

IdleStore == [pc |-> "off"]

IdleProbe ==
    [pc |-> "off", cfg |-> CHOOSE c \in OracleCfgs : Configured(c), kind |-> "none",
     lead |-> <<>>, body |-> [raw |-> <<>>, expect |-> "UNKNOWN"], trail |-> <<>>,
     result |-> "unset", net |-> 0, verdict |-> "unset"]

\* after TelegramChannelMonitor.__init__, in a process whose stores may or
\* may not have been written before
Init ==
    /\ console \in {"utf8", "legacy"}
    /\ oracleCfg \in OracleCfgs
    /\ enabled = MistralInit(oracleCfg)
    /\ bot_configured \in BOOLEAN
    /\ user_entity = "none"
    /\ queryFile \in {AbsentFile, SetCurrentQuery(Q1)}
    /\ user_prompt = GetCurrentQuery(queryFile)
    /\ mon = "constructed"
    /\ connected = FALSE
    /\ monitored_channels = {}
    /\ channelsFile = [st |-> "absent", channels |-> {}]
    /\ handler = [h \in {1} |-> IdleHandler]
    /\ probe = IdleProbe
    /\ store = IdleStore

Next ==
    \/ \E channels \in SUBSET Names, found \in SUBSET Names, start_ok \in BOOLEAN :
          RunMonitor(channels, start_ok, found)
    \/ Stop
    \/ \E n \in Names : AddChannel(n)
    \/ \E n \in Names : RemoveChannel(n)
    \/ \E q \in Queries : SetQuery(q)
    \/ \E h \in Handlers, chat \in Chats, text \in Texts : Arrive(h, chat, text)
    \/ \E h \in Handlers, ok \in BOOLEAN : Resolve(h, ok)
    \/ \E h \in Handlers, out \in HandlerReplies : OracleReturn(h, out)
    \/ \E h \in Handlers : Details(h)
    \/ \E h \in Handlers, ok \in BOOLEAN : Sender(h, ok)
    \/ \E h \in Handlers, status \in HttpOutcomes : Post(h, status)
    \/ \E h \in Handlers, ok \in BOOLEAN : Forward(h, ok)

Spec == Init /\ [][Next]_vars

----------------------------------------------------------------------------
(* is_message_relevant on its own, over a family of replies *)

\* replies of the judgment service, each with the verdict that the parsing
\* rule of the Oracle client assigns to it
ProbeBodies ==
    {
      [raw |-> <<"N", "O", "T", " ", "R", "E", "L", "E", "V", "A", "N", "T">>,
       expect |-> "NOT_RELEVANT"],
      [raw |-> <<"n", "o", "t", " ", "r", "e", "l", "e", "v", "a", "n", "t">>,
       expect |-> "NOT_RELEVANT"],
      [raw |-> <<"N", "o", "t", " ", "R", "e", "l", "e", "v", "a", "n", "t", ".">>,
       expect |-> "NOT_RELEVANT"],
      [raw |-> <<"R", "E", "L", "E", "V", "A", "N", "T">>,
       expect |-> "RELEVANT"],
      [raw |-> <<"r", "e", "l", "e", "v", "a", "n", "t">>,
       expect |-> "RELEVANT"],
      [raw |-> <<"R", "e", "l", "e", "v", "a", "n", "t", ":", " ", "y", "e", "s">>,
       expect |-> "RELEVANT"],
      [raw |-> <<"N", "O", "T", "R", "E", "L", "E", "V", "A", "N", "T">>,
       expect |-> "UNKNOWN"],
      [raw |-> <<"N", "O", "T", " ", " ", "R", "E", "L", "E", "V", "A", "N", "T">>,
       expect |-> "UNKNOWN"],
      [raw |-> <<"N", "O", "T", "\n", "R", "E", "L", "E", "V", "A", "N", "T">>,
       expect |-> "UNKNOWN"],
      [raw |-> <<"I", "R", "R", "E", "L", "E", "V", "A", "N", "T">>,
       expect |-> "UNKNOWN"],
      [raw |-> <<>>,
       expect |-> "UNKNOWN"],
      [raw |-> <<"Y", "E", "S">>,
       expect |-> "UNKNOWN"],
      [raw |-> <<"N", "O", "T">>,
       expect |-> "UNKNOWN"],
      [raw |-> <<"R", "E", "L", "E", "V", "A", "N">>,
       expect |-> "UNKNOWN"],
      [raw |-> <<"I", "t", " ", "i", "s", " ", "R", "E", "L", "E", "V", "A", "N", "T">>,
       expect |-> "UNKNOWN"]
    }

PadChars == {" ", "\n"}

\* the runs of whitespace around a reply
Pads == UNION {[1..n -> PadChars] : n \in 0..MaxPad}

ProbeOut(p) == [kind |-> p.kind, raw |-> p.lead \o p.body.raw \o p.trail]

InitOracle ==
    /\ console = "utf8"
    /\ oracleCfg = IdleProbe.cfg
    /\ enabled = MistralInit(oracleCfg)
    /\ bot_configured = FALSE
    /\ user_entity = "none"
    /\ queryFile = AbsentFile
    /\ user_prompt = GetCurrentQuery(queryFile)
    /\ mon = "constructed"
    /\ connected = FALSE
    /\ monitored_channels = {}
    /\ channelsFile = [st |-> "absent", channels |-> {}]
    /\ handler = [h \in {1} |-> IdleHandler]
    /\ store = IdleStore
    /\ \E cfg \in OracleCfgs, kind \in {"raise", "text", "nocontent", "nontext"},
          lead \in Pads, trail \in Pads, body \in ProbeBodies :
          probe = [IdleProbe EXCEPT !.pc = "ready", !.cfg = cfg, !.kind = kind,
                                    !.lead = lead, !.body = body, !.trail = trail]

\* MistralAIProcessor(...).is_message_relevant(message_text, user_query)
ProbeCall ==
    /\ probe.pc = "ready"
    /\ LET res == IsMessageRelevant(MistralInit(probe.cfg), ProbeOut(probe))
       IN  probe' = [probe EXCEPT !.pc = "returned",
                                  !.result = Bool(res.result),
                                  !.net = res.net,
                                  !.verdict = res.verdict]
    /\ UNCHANGED <<console, oracleCfg, enabled, bot_configured, user_entity, user_prompt,
                   mon, connected, monitored_channels, channelsFile, queryFile, handler,
                   store>>

NextOracle == ProbeCall

SpecOracle == InitOracle /\ [][NextOracle]_vars

----------------------------------------------------------------------------
(* query_store on its own: one writer (the control surface) and readers in
   any process, the monitor's handler among them *)

MaxQueryLen == 2

\* calls of set_current_query in one behaviour
MaxWrites == 1

\* the characters a query is made of: a letter, the three characters json
\* escapes, and one outside ASCII
QueryChars == {"a", "\"", "\\", "\n", EAcute}

RECURSIVE SeqsUpTo(_, _)
SeqsUpTo(S, n) ==
    IF n = 0 THEN {<<>>}
    ELSE LET shorter == SeqsUpTo(S, n - 1)
         IN  shorter \cup {Append(q, c) : q \in {x \in shorter : Len(x) = n - 1}, c \in S}

\* what /setquery hands to set_current_query: never empty
StoreQueries == SeqsUpTo(QueryChars, MaxQueryLen) \ {<<>>}

NoRead ==
    [valid |-> FALSE, value |-> NoQuery, during |-> FALSE, before |-> NoQuery,
     after |-> NoQuery, file |-> AbsentFile, complete |-> FALSE]

IdleQueryStore ==
    [pc |-> "idle", q |-> NoQuery, result |-> "unset", before |-> NoQuery, writes |-> 0,
     complete |-> FALSE, got |-> NoRead]

\* set_current_query line 22: open(QUERY_FILE, 'w') truncates the file, or
\* raises and False is returned
QOpen(q, ok) ==
    /\ store.pc = "idle"
    /\ store.writes < MaxWrites
    /\ IF ok
         THEN /\ queryFile' = [st |-> "present", bytes |-> <<>>]
              /\ store' = [store EXCEPT !.pc = "writing", !.q = q, !.result = "unset",
                                        !.before = GetCurrentQuery(queryFile),
                                        !.writes = @ + 1, !.complete = FALSE,
                                        !.got = NoRead]
         ELSE /\ queryFile' = queryFile
              /\ store' = [store EXCEPT !.q = q, !.result = "no", !.writes = @ + 1,
                                        !.got = NoRead]
    /\ UNCHANGED <<console, oracleCfg, enabled, bot_configured, user_entity, user_prompt,
                   mon, connected, monitored_channels, channelsFile, handler, probe>>

\* set_current_query line 23: the text buffer is flushed before the document
\* is complete
QFlush ==
    /\ store.pc = "writing"
    /\ queryFile.bytes = <<>>
    /\ queryFile' = [queryFile EXCEPT
                       !.bytes = SubSeq(JsonDumpQuery(store.q), 1,
                                        Len(JsonDumpQuery(store.q)) \div 2)]
    /\ store' = [store EXCEPT !.got = NoRead]
    /\ UNCHANGED <<console, oracleCfg, enabled, bot_configured, user_entity, user_prompt,
                   mon, connected, monitored_channels, channelsFile, handler, probe>>

\* set_current_query lines 23-26: the rest is written and the file closed,
\* True is returned; or the write raises and False is returned
QClose(ok) ==
    /\ store.pc = "writing"
    /\ queryFile' = IF ok THEN SetCurrentQuery(store.q) ELSE queryFile
    /\ store' = [store EXCEPT !.pc = "idle", !.result = Bool(ok),
                              !.complete = ok, !.got = NoRead]
    /\ UNCHANGED <<console, oracleCfg, enabled, bot_configured, user_entity, user_prompt,
                   mon, connected, monitored_channels, channelsFile, handler, probe>>

\* get_current_query, called by any process at any moment
QGet ==
    /\ LET value == GetCurrentQuery(queryFile)
       IN  store' = [store EXCEPT !.got =
             [valid |-> TRUE,
              value |-> value,
              during |-> (store.pc = "writing"),
              before |-> IF store.pc = "writing" THEN store.before ELSE value,
              after |-> IF store.pc = "writing" THEN store.q ELSE value,
              file |-> queryFile,
              complete |-> store.complete]]
    /\ UNCHANGED <<console, oracleCfg, enabled, bot_configured, user_entity, user_prompt,
                   mon, connected, monitored_channels, channelsFile, queryFile, handler,
                   probe>>

InitQuery ==
    /\ console = "utf8"
    /\ oracleCfg = CHOOSE c \in OracleCfgs : Configured(c)
    /\ enabled = FALSE
    /\ bot_configured = FALSE
    /\ user_entity = "none"
    /\ user_prompt = DefaultQuery
    /\ mon = "off"
    /\ connected = FALSE
    /\ monitored_channels = {}
    /\ channelsFile = [st |-> "absent", channels |-> {}]
    /\ queryFile \in {AbsentFile} \cup {SetCurrentQuery(<<c>>) : c \in QueryChars}
    /\ handler = [h \in {1} |-> IdleHandler]
    /\ probe = IdleProbe
    /\ store = [IdleQueryStore EXCEPT !.complete = (queryFile.st = "present")]

NextQuery ==
    \/ \E q \in StoreQueries, ok \in BOOLEAN : QOpen(q, ok)
    \/ QFlush
    \/ \E ok \in BOOLEAN : QClose(ok)
    \/ QGet

SpecQuery == InitQuery /\ [][NextQuery]_vars

----------------------------------------------------------------------------
(* channel_store on its own: the control surface calls add_channel and
   remove_channel one after the other *)

MaxCalls == 4

\* whether open() and json.dump() of _save_channels work
IoOutcomes == {"ok", "open_fails", "write_fails"}

IdleChannelStore == [pc |-> "idle", hist |-> <<>>]

\* bot_handler.py lines 106 and 131: one call, from its load to its return
ChannelCall(op, n, io) ==
    /\ store.pc = "idle"
    /\ Len(store.hist) < MaxCalls
    /\ LET res == IF op = "add" THEN AddChannelCall(channelsFile, n, io)
                  ELSE RemoveChannelCall(channelsFile, n, io)
       IN  /\ channelsFile' = res.file
           /\ store' = [store EXCEPT !.hist =
                 Append(@, [op |-> op, name |-> n, io |-> io, result |-> res.result,
                            absent |-> channelsFile.st = "absent",
                            before |-> GetMonitoredChannels(channelsFile),
                            after |-> GetMonitoredChannels(res.file)])]
    /\ UNCHANGED <<console, oracleCfg, enabled, bot_configured, user_entity, user_prompt,
                   mon, connected, monitored_channels, queryFile, handler, probe>>

InitChannels ==
    /\ console = "utf8"
    /\ oracleCfg = CHOOSE c \in OracleCfgs : Configured(c)
    /\ enabled = FALSE
    /\ bot_configured = FALSE
    /\ user_entity = "none"
    /\ user_prompt = DefaultQuery
    /\ mon = "off"
    /\ connected = FALSE
    /\ monitored_channels = {}
    /\ channelsFile \in {[st |-> "absent", channels |-> {}], SaveChannels({})}
    /\ queryFile = AbsentFile
    /\ handler = [h \in {1} |-> IdleHandler]
    /\ probe = IdleProbe
    /\ store = IdleChannelStore

NextChannels ==
    \E op \in {"add", "remove"}, n \in Names, io \in IoOutcomes : ChannelCall(op, n, io)

SpecChannels == InitChannels /\ [][NextChannels]_vars

----------------------------------------------------------------------------
(* send_message_via_bot: the link to the original message, on its own *)

MaxMessageId == 3

DigitChars == <<"0", "1", "2", "3", "4", "5", "6", "7", "8", "9">>

RECURSIVE NatStr(_)
NatStr(n) ==
    IF n < 10 THEN <<DigitChars[n + 1]>>
    ELSE NatStr(n \div 10) \o <<DigitChars[(n % 10) + 1]>>

\* str() of an int
IntStr(n) == IF n < 0 THEN <<"-">> \o NatStr(0 - n) ELSE NatStr(n)

RECURSIVE Replace(_, _, _)

\* str.replace(old, new): every occurrence, left to right, without overlap
Replace(s, old, new) ==
    IF Len(s) < Len(old) THEN s
    ELSE IF StartsWith(s, old)
      THEN new \o Replace(SubSeq(s, Len(old) + 1, Len(s)), old, new)
    ELSE <<Head(s)>> \o Replace(Tail(s), old, new)

\* what Telegram uses as chat ids: -100... for channels and supergroups,
\* other negative numbers for groups, positive numbers for users
ChatIds == {-100, -1001, -1005, -10010, -100100, -1001100, -1100, -10, -1, 100, 1001, 1100}

Usernames == {Missing, NoneVal, "", "tests_tal"}

NoLink == [some |-> FALSE, text |-> <<>>]

\* mutant of MessageLink: the id is written as it is
MessageLinkPlainId(chat, message_id) ==
    IF chat.username \notin {Missing, NoneVal, ""}
      THEN [some |-> TRUE,
            text |-> <<"https://t.me/", chat.username, "/">> \o IntStr(message_id)]
    ELSE IF chat.has_id
      THEN [some |-> TRUE,
            text |-> <<"https://t.me/c/">> \o IntStr(chat.id) \o <<"/">> \o IntStr(message_id)]
    ELSE NoLink

\* monitor.py lines 126-134
MessageLink(chat, message_id) ==
    IF chat.username \notin {Missing, NoneVal, ""}
      THEN [some |-> TRUE,
            text |-> <<"https://t.me/", chat.username, "/">> \o IntStr(message_id)]
    ELSE IF chat.has_id
      THEN [some |-> TRUE,
            text |-> <<"https://t.me/c/">>
                     \o Replace(IntStr(chat.id), <<"-", "1", "0", "0">>, <<>>)
                     \o <<"/">> \o IntStr(message_id)]
    ELSE NoLink

LinkCall ==
    /\ probe.pc = "ready"
    /\ probe' = [probe EXCEPT !.pc = "done", !.link = MessageLink(probe.chat, probe.message_id)]
    /\ UNCHANGED <<console, oracleCfg, enabled, bot_configured, user_entity, user_prompt,
                   mon, connected, monitored_channels, channelsFile, queryFile, handler,
                   store>>

InitLink ==
    /\ console = "utf8"
    /\ oracleCfg = CHOOSE c \in OracleCfgs : Configured(c)
    /\ enabled = FALSE
    /\ bot_configured = TRUE
    /\ user_entity = "none"
    /\ user_prompt = DefaultQuery
    /\ mon = "off"
    /\ connected = FALSE
    /\ monitored_channels = {}
    /\ channelsFile = [st |-> "absent", channels |-> {}]
    /\ queryFile = AbsentFile
    /\ handler = [h \in {1} |-> IdleHandler]
    /\ store = IdleStore
    /\ \E u \in Usernames, has_id \in BOOLEAN, i \in ChatIds, m \in 1..MaxMessageId :
          probe = [pc |-> "ready", chat |-> [username |-> u, has_id |-> has_id, id |-> i],
                   message_id |-> m, link |-> NoLink]

NextLink == LinkCall

SpecLink == InitLink /\ [][NextLink]_vars

----------------------------------------------------------------------------
(* message_handler: the name of the chat, on its own *)

\* what the attributes title and username of the entity of event.get_chat()
\* can be: not there (a User has no title), None (a User without a public
\* handle), empty, or a name
TitleValues == {Missing, NoneVal, ""} \cup Names \cup {"Deals", "News", "Unknown"}
UsernameValues == Usernames \cup {"hadashot", "deals", "news", "Unknown"}

NameCall ==
    /\ probe.pc = "ready"
    /\ probe' = [probe EXCEPT !.pc = "done", !.chat_name = ChatName(probe.chat)]
    /\ UNCHANGED <<console, oracleCfg, enabled, bot_configured, user_entity, user_prompt,
                   mon, connected, monitored_channels, channelsFile, queryFile, handler,
                   store>>

InitName ==
    /\ console = "utf8"
    /\ oracleCfg = CHOOSE c \in OracleCfgs : Configured(c)
    /\ enabled = FALSE
    /\ bot_configured = TRUE
    /\ user_entity = "none"
    /\ user_prompt = DefaultQuery
    /\ mon = "off"
    /\ connected = FALSE
    /\ monitored_channels = {}
    /\ channelsFile = [st |-> "absent", channels |-> {}]
    /\ queryFile = AbsentFile
    /\ handler = [h \in {1} |-> IdleHandler]
    /\ store = IdleStore
    /\ \E t \in TitleValues, u \in UsernameValues :
          probe = [pc |-> "ready", chat |-> [title |-> t, username |-> u],
                   chat_name |-> Missing]

NextName == NameCall

SpecName == InitName /\ [][NextName]_vars

----------------------------------------------------------------------------
(* Two events in flight: the event loop runs one handler task per event *)

ConcHandlers == {1, 2}

\* the text of the two events: what it is plays no part here
ConcTexts == {"deal"}

\* mutant of OracleCallIsAwaited: the call blocks the event loop
OracleCallIsSynchronous == FALSE

\* ai.py line 93 and monitor.py line 348: chain.ainvoke and is_message_relevant
\* are awaited, so the event loop runs the other tasks while a call is pending
OracleCallIsAwaited == TRUE

\* a task that cannot run because another task holds the loop in its call
Blocked(h) ==
    /\ ~OracleCallIsAwaited
    /\ \E g \in ConcHandlers \ {h} : handler[g].pc = "oracle"

\* an event of one monitored source, while the event of another source may
\* still be in its handler; task 1 is the one created first
ArriveOnce(h, chat, text) ==
    /\ ~Blocked(h)
    /\ handler[h].pc = "idle"
    /\ h = 2 => handler[1].pc # "idle"
    /\ \A g \in ConcHandlers \ {h} :
          handler[g].pc # "idle" => ChatName(handler[g].chat) # ChatName(chat)
    /\ Arrive(h, chat, text)

\* the next step of the task of handler h
HandlerStep(h) ==
    /\ ~Blocked(h)
    /\ \/ \E ok \in BOOLEAN : Resolve(h, ok)
       \/ \E out \in HandlerReplies : OracleReturn(h, out)
       \/ Details(h)
       \/ \E ok \in BOOLEAN : Sender(h, ok)
       \/ \E status \in HttpOutcomes : Post(h, status)
       \/ \E ok \in BOOLEAN : Forward(h, ok)

\* after run_monitor has added both names and installed the handler
InitConc ==
    /\ console = "utf8"
    /\ oracleCfg = CHOOSE c \in OracleCfgs : Configured(c)
    /\ enabled = MistralInit(oracleCfg)
    /\ bot_configured \in BOOLEAN
    /\ user_entity = "me"
    /\ queryFile = AbsentFile
    /\ user_prompt = GetCurrentQuery(queryFile)
    /\ mon = "running"
    /\ connected = TRUE
    /\ monitored_channels = Names
    /\ channelsFile = SaveChannels(Names)
    /\ handler = [h \in ConcHandlers |-> IdleHandler]
    /\ probe = IdleProbe
    /\ store = IdleStore

NextConc ==
    \/ \E h \in ConcHandlers, chat \in Chats, text \in ConcTexts : ArriveOnce(h, chat, text)
    \/ \E h \in ConcHandlers : HandlerStep(h)

\* the event loop resumes every task whose awaited call has returned, and
\* every awaited call returns in the end
SpecConc ==
    /\ InitConc
    /\ [][NextConc]_vars
    /\ \A h \in ConcHandlers : WF_vars(HandlerStep(h))

----------------------------------------------------------------------------
(* Startup: the entry points, the validation pass, and the events after it *)

\* names a registry may hold: titles, and the handle of the chat whose title
\* is TestsTal
ConfigNames == Names \cup {"tests_tal"}

\* client.get_entity(name): a handle is looked up first, then the titles the
\* session knows
SourceOf(name) ==
    IF \E chat \in Chats : chat.username = name
      THEN {chat \in Chats : chat.username = name}
      ELSE {chat \in Chats : chat.title = name}

\* cli.py line 52: monitor.run_monitor() is called with no argument
CliArguments == <<>>

\* monitor.py line 474: run_monitor(self, channels) has one required parameter
RunMonitorParams == <<"channels">>

IdleStartup ==
    [pc |-> "start", entry |-> "none", list |-> {}, given |-> FALSE, channels |-> {},
     found |-> {}, passed |-> FALSE, added |-> {}]

\* example_usage.py line 18: run_monitor(channels)
ScriptRunMonitor(channels, start_ok, found) ==
    /\ store.pc = "start"
    /\ RunMonitorBody(channels, start_ok, found)
    /\ store' = [store EXCEPT !.pc = "called", !.entry = "script", !.given = TRUE,
                              !.channels = channels, !.found = found,
                              !.passed = (start_ok /\ ~BannerRaises),
                              !.added = IF start_ok /\ ~BannerRaises
                                          THEN AddChannelsToMonitor(channels, found)
                                          ELSE {}]

\* cli.run_monitor, cli.py lines 36-52: the list is read from the channel
\* store, the monitor is constructed, run_monitor is called
CliRunMonitor(start_ok, found) ==
    /\ store.pc = "start"
    /\ LET list == GetMonitoredChannels(channelsFile)
       IN  IF Len(CliArguments) # Len(RunMonitorParams)
             THEN \* TypeError at the call: the body of run_monitor never runs
                  /\ mon = "constructed"
                  /\ mon' = "failed"
                  /\ store' = [store EXCEPT !.pc = "called", !.entry = "cli",
                                            !.list = list, !.found = found]
                  /\ UNCHANGED <<console, oracleCfg, enabled, bot_configured,
                                 user_entity, user_prompt, connected, monitored_channels,
                                 channelsFile, queryFile, handler, probe>>
             ELSE /\ RunMonitorBody(list, start_ok, found)
                  /\ store' = [store EXCEPT !.pc = "called", !.entry = "cli",
                                            !.list = list, !.given = TRUE,
                                            !.channels = list, !.found = found,
                                            !.passed = (start_ok /\ ~BannerRaises),
                                            !.added = IF start_ok /\ ~BannerRaises
                                                        THEN AddChannelsToMonitor(list, found)
                                                        ELSE {}]

InitStartup ==
    /\ console \in {"utf8", "legacy"}
    /\ oracleCfg = CHOOSE c \in OracleCfgs : Configured(c)
    /\ enabled = MistralInit(oracleCfg)
    /\ bot_configured = TRUE
    /\ user_entity = "none"
    /\ queryFile = AbsentFile
    /\ user_prompt = GetCurrentQuery(queryFile)
    /\ mon = "constructed"
    /\ connected = FALSE
    /\ monitored_channels = {}
    /\ channelsFile \in {[st |-> "absent", channels |-> {}]}
                        \cup {SaveChannels(c) : c \in SUBSET ConfigNames}
    /\ handler = [h \in {1} |-> IdleHandler]
    /\ probe = IdleProbe
    /\ store = IdleStartup

NextStartup ==
    \/ \E channels \in SUBSET ConfigNames, found \in SUBSET ConfigNames,
          start_ok \in BOOLEAN : ScriptRunMonitor(channels, start_ok, found)
    \/ \E found \in SUBSET ConfigNames, start_ok \in BOOLEAN : CliRunMonitor(start_ok, found)
    \/ Stop
    \/ \E h \in Handlers, chat \in Chats : Arrive(h, chat, "deal")
    \/ \E h \in Handlers : HandlerStep(h)

SpecStartup == InitStartup /\ [][NextStartup]_vars

----------------------------------------------------------------------------
(* The control surface: two commands on the Source Registry in flight *)

Commands == {1, 2}

\* mutant of StoreCallIsSynchronous: another command may run between the load
\* and the save of a call
StoreCallYields == FALSE

\* channel_store.py lines 37-52 and bot_handler.py lines 106 and 131:
\* add_channel and remove_channel are plain functions without an await, and
\* the command handlers run on one event loop, so nothing else runs between
\* the load and the save of one call
StoreCallIsSynchronous == TRUE

IdleCommand ==
    [pc |-> "idle", op |-> "none", name |-> Missing,
     loaded |-> [st |-> "absent", channels |-> {}], result |-> "unset"]

\* together: both commands were waiting for the loop at the same moment
IdleRegistry ==
    [pc |-> "idle", together |-> FALSE, cmd |-> [t \in Commands |-> IdleCommand]]

\* the loop is inside the store call of another command
HeldByOther(t) ==
    /\ StoreCallIsSynchronous
    /\ \E u \in Commands \ {t} : store.cmd[u].pc = "loaded"

\* /addchannel or /removechannel arrives: bot_handler.py lines 92-104, 117-129
Command(t, op, n) ==
    /\ ~HeldByOther(t)
    /\ store.cmd[t].pc = "idle"
    /\ store' = [store EXCEPT !.cmd[t] = [IdleCommand EXCEPT !.pc = "pending", !.op = op,
                                                            !.name = n],
                              !.together = \/ store.together
                                           \/ \E u \in Commands \ {t} :
                                                 store.cmd[u].pc \in {"pending", "loaded"}]
    /\ UNCHANGED <<console, oracleCfg, enabled, bot_configured, user_entity, user_prompt,
                   mon, connected, monitored_channels, channelsFile, queryFile, handler,
                   probe>>

\* channel_store.py lines 39 and 47: _load_channels()
CommandLoad(t) ==
    /\ ~HeldByOther(t)
    /\ store.cmd[t].pc = "pending"
    /\ store' = [store EXCEPT !.cmd[t].pc = "loaded", !.cmd[t].loaded = channelsFile]
    /\ UNCHANGED <<console, oracleCfg, enabled, bot_configured, user_entity, user_prompt,
                   mon, connected, monitored_channels, channelsFile, queryFile, handler,
                   probe>>

\* channel_store.py lines 40-43 and 48-52: the test on the loaded set and
\* _save_channels of the changed set; the file is written only when the call
\* gets as far as open()
CommandSave(t, io) ==
    /\ ~HeldByOther(t)
    /\ store.cmd[t].pc = "loaded"
    /\ LET c == store.cmd[t]
           res == IF c.op = "add" THEN AddChannelCall(c.loaded, c.name, io)
                  ELSE RemoveChannelCall(c.loaded, c.name, io)
       IN  /\ channelsFile' = IF res.file = c.loaded THEN channelsFile ELSE res.file
           /\ store' = [store EXCEPT !.cmd[t].pc = "done",
                                     !.cmd[t].result = Bool(res.result)]
    /\ UNCHANGED <<console, oracleCfg, enabled, bot_configured, user_entity, user_prompt,
                   mon, connected, monitored_channels, queryFile, handler, probe>>

InitRegistry ==
    /\ console = "utf8"
    /\ oracleCfg = CHOOSE c \in OracleCfgs : Configured(c)
    /\ enabled = FALSE
    /\ bot_configured = TRUE
    /\ user_entity = "none"
    /\ user_prompt = DefaultQuery
    /\ mon = "off"
    /\ connected = FALSE
    /\ monitored_channels = {}
    /\ channelsFile \in {[st |-> "absent", channels |-> {}]}
                        \cup {SaveChannels(c) : c \in SUBSET ConfigNames}
    /\ queryFile = AbsentFile
    /\ handler = [h \in {1} |-> IdleHandler]
    /\ probe = IdleProbe
    /\ store = IdleRegistry

NextRegistry ==
    \/ \E t \in Commands, op \in {"add", "remove"}, n \in ConfigNames : Command(t, op, n)
    \/ \E t \in Commands : CommandLoad(t)
    \/ \E t \in Commands, io \in IoOutcomes : CommandSave(t, io)

SpecRegistry == InitRegistry /\ [][NextRegistry]_vars

----------------------------------------------------------------------------
(* Properties *)

\* a handler that got past event.get_chat() and the membership test
Checked(h) == handler[h].member # "unset"

\* a handler that returned
Returned(h) == handler[h].pc = "done"

\* C1, as claimed: the membership test of the handler agrees with the Source
\* Registry as it is persisted at the moment of the test: an event whose name
\* is in the persisted registry is evaluated, one whose name is not in it is
\* ignored.
C1_MembershipFollowsPersistedRegistry ==
    \A h \in Handlers :
        Checked(h) => handler[h].member = handler[h].in_registry

\* C2, as claimed: a dispatch whose primary delivery failed has made exactly
\* one fallback attempt (forward_message_to_self) before it returned.
C2_PrimaryFailureFollowedByFallback ==
    \A h \in Handlers :
        (Returned(h) /\ handler[h].primary = "failed") => handler[h].fallback_calls = 1

\* C3: is_message_relevant fails open.  When the external call raises, or
\* returns content that is not text, the result is RELEVANT; the result is
\* NOT RELEVANT only for a reply that starts with "NOT RELEVANT" (stripped,
\* upper-cased); and a handler that called the Oracle returns without a
\* dispatch only after such a reply.
C3_OracleFailsOpen ==
    \A h \in Handlers :
        LET r == handler[h]
        IN  /\ (r.relevant # "unset" /\ r.reply.kind \in {"raise", "nontext"})
                  => r.relevant = "yes"
            /\ r.relevant = "no"
                  => /\ r.reply.kind = "text"
                     /\ StartsWith(Upper(Strip(r.reply.raw)), NOT_RELEVANT)
            /\ (Returned(h) /\ r.oracle_calls >= 1 /\ r.dispatch_calls = 0)
                  => /\ r.relevant = "no"
                     /\ StartsWith(Upper(Strip(r.reply.raw)), NOT_RELEVANT)

\* C3 witness: the external call raised and the message was dispatched
C3_Witness ==
    \E h \in Handlers :
        /\ handler[h].reply.kind = "raise"
        /\ handler[h].relevant = "yes"
        /\ handler[h].dispatch_calls = 1

\* C4: the parsing rule.  For a reply string r and r1 = r stripped and
\* upper-cased: NOT_RELEVANT (false) if r1 starts with "NOT RELEVANT";
\* otherwise RELEVANT (true) if r1 starts with "RELEVANT"; otherwise UNKNOWN,
\* mapped to true.  Each reply of the family gets the verdict listed for it.
C4_ParsingRule ==
    (probe.pc = "returned" /\ Configured(probe.cfg) /\ probe.kind \in {"text", "nocontent"})
      => LET r1 == Upper(Strip(ProbeOut(probe).raw))
         IN  /\ StartsWith(r1, NOT_RELEVANT)
                   => probe.result = "no" /\ probe.verdict = "NOT_RELEVANT"
             /\ (~StartsWith(r1, NOT_RELEVANT) /\ StartsWith(r1, RELEVANT))
                   => probe.result = "yes" /\ probe.verdict = "RELEVANT"
             /\ (~StartsWith(r1, NOT_RELEVANT) /\ ~StartsWith(r1, RELEVANT))
                   => probe.result = "yes" /\ probe.verdict = "UNKNOWN"
             /\ probe.verdict = probe.body.expect

\* C4 witness: a lower-case "not relevant" with whitespace before it was
\* judged not relevant
C4_Witness ==
    /\ probe.pc = "returned"
    /\ Configured(probe.cfg)
    /\ probe.kind = "text"
    /\ probe.lead # <<>>
    /\ probe.body.raw = <<"n", "o", "t", " ", "r", "e", "l", "e", "v", "a", "n", "t">>
    /\ probe.result = "no"

\* C5: when the Oracle is not configured (library missing, no API key, or
\* the model could not be built), every call of is_message_relevant returns
\* RELEVANT at once and makes no network call.
C5_UnconfiguredOracleIsRelevant ==
    ~Configured(oracleCfg) =>
        \A h \in Handlers :
            /\ handler[h].pc # "oracle"
            /\ handler[h].net_calls = 0
            /\ handler[h].oracle_calls >= 1 => handler[h].relevant = "yes"

\* C5 witness: a call with no API key returned RELEVANT
C5_Witness ==
    /\ ~oracleCfg.api_key
    /\ \E h \in Handlers :
          /\ handler[h].oracle_calls = 1
          /\ handler[h].relevant = "yes"
          /\ handler[h].net_calls = 0

\* C6: an event whose resolved source name is not in the monitored set
\* causes no Oracle call and no Dispatcher call (primary or fallback), and
\* the step that ignores it leaves the monitored set, the registry and the
\* query unchanged.
C6_NonMemberIgnored ==
    /\ [](\A h \in Handlers :
            (Checked(h) /\ handler[h].chat_name \notin monitored_channels)
              => /\ handler[h].pc = "done"
                 /\ handler[h].oracle_calls = 0
                 /\ handler[h].net_calls = 0
                 /\ handler[h].dispatch_calls = 0
                 /\ handler[h].post_calls = 0
                 /\ handler[h].fallback_calls = 0)
    /\ [][\A h \in Handlers :
            (handler[h].pc = "get_chat" /\ handler'[h].member = "no")
              => UNCHANGED <<monitored_channels, channelsFile, queryFile>>]_vars

\* C6 witness: an event from a chat outside the monitored set was ignored
C6_Witness ==
    \E h \in Handlers :
        /\ Returned(h)
        /\ handler[h].member = "no"
        /\ handler[h].chat_name \in Names
        /\ handler[h].chat_name \notin monitored_channels

\* C7: the query passed to the Oracle for an event is the content of the
\* Query Register at the step in which the handler evaluates the event (the
\* default when nothing was set); a set(q) changes no handler, so no message
\* is evaluated or dispatched a second time.
C7_QueryReadFresh ==
    /\ [][\A h \in Handlers :
            (handler[h].oracle_calls = 0 /\ handler'[h].oracle_calls = 1)
              => IF queryFile.st = "absent"
                   THEN handler'[h].query = DefaultQuery
                   ELSE \E q \in Queries : /\ queryFile.bytes = JsonDumpQuery(q)
                                           /\ handler'[h].query = q]_vars
    /\ [][queryFile' # queryFile => handler' = handler]_vars
    /\ [](\A h \in Handlers : handler[h].oracle_calls <= 1 /\ handler[h].dispatch_calls <= 1)

\* C7 witness: the query was set after the monitor was constructed and the
\* next message was evaluated against the new query
C7_Witness ==
    \E h \in Handlers :
        /\ handler[h].oracle_calls = 1
        /\ handler[h].query = Q2
        /\ user_prompt # Q2

\* C8: for an event from a monitored source the handler calls the Oracle
\* exactly once; on NOT_RELEVANT it never calls the Dispatcher, on RELEVANT
\* (fail-open and UNKNOWN included) it calls it exactly once; once the
\* verdict is there, neither the verdict nor the number of Oracle calls
\* changes, whatever the Dispatcher returns.
C8_OneOracleCallOneDispatch ==
    /\ [](\A h \in Handlers :
            LET r == handler[h]
            IN  /\ r.oracle_calls <= 1 /\ r.dispatch_calls <= 1
                /\ (Checked(h) /\ r.chat_name \in monitored_channels) => r.oracle_calls = 1
                /\ r.relevant = "no" => r.dispatch_calls = 0
                /\ (Returned(h) /\ r.relevant = "yes") => r.dispatch_calls = 1
                /\ r.sent # "unset" => r.relevant = "yes")
    /\ [][\A h \in Handlers :
            (handler[h].verdict # "unset" /\ handler'[h].pc # "get_chat")
              => /\ handler'[h].verdict = handler[h].verdict
                 /\ handler'[h].relevant = handler[h].relevant
                 /\ handler'[h].oracle_calls = handler[h].oracle_calls]_vars

\* C8 witness: a relevant message whose dispatch failed: one Oracle call,
\* one Dispatcher call
C8_Witness ==
    \E h \in Handlers :
        /\ Returned(h)
        /\ handler[h].relevant = "yes"
        /\ handler[h].sent = "no"
        /\ handler[h].oracle_calls = 1
        /\ handler[h].dispatch_calls = 1

\* C9: no exception raised at a step of the handler leaves the handler; the
\* handler returns and the monitor keeps running.
C9_HandlerNeverRaises ==
    /\ [](\A h \in Handlers :
            /\ handler[h].pc # "raised"
            /\ handler[h].error # "none" => Returned(h))
    /\ [][\A h \in Handlers :
            (handler[h].error = "none" /\ handler'[h].error # "none")
              => mon' = "running"]_vars

\* C9 witness: an event was handled to the end in a handler slot whose
\* previous event had ended in a caught exception
C9_Witness ==
    \E h \in Handlers :
        /\ handler[h].after_error
        /\ Returned(h)
        /\ handler[h].oracle_calls = 1

\* C10: the dispatch never raises.  Every dispatch that ended has returned a
\* boolean, true exactly when the primary or the fallback delivery
\* succeeded, whatever failed inside it.
C10_DispatchReturnsBoolean ==
    \A h \in Handlers :
        LET r == handler[h]
        IN  /\ (r.dispatch_calls >= 1 /\ r.pc \in {"done", "raised"})
                  => /\ r.sent \in {"yes", "no"}
                     /\ r.sent = "yes" <=> (r.primary = "ok" \/ r.fallback = "ok")
            /\ r.error = "NetworkError" => r.dispatch_calls = 0

\* C10 witness: the sender lookup or the HTTP call failed and the dispatch
\* returned false
C10_Witness ==
    \E h \in Handlers :
        /\ Returned(h)
        /\ handler[h].primary = "failed"
        /\ handler[h].sent = "no"

\* C15: when the text of an event from a monitored source is empty or absent,
\* is_message_relevant is called with "[Non-text content]"; a non-empty text
\* is passed as it is.
C15_PlaceholderForEmptyText ==
    \A h \in Handlers :
        handler[h].oracle_calls >= 1
          => handler[h].oracle_text =
               (IF handler[h].text = NoneVal \/ handler[h].text = ""
                  THEN "[Non-text content]" ELSE handler[h].text)

C15_Witness ==
    \E h \in Handlers :
        /\ handler[h].oracle_calls >= 1
        /\ handler[h].member = "yes"
        /\ handler[h].text = NoneVal
        /\ handler[h].oracle_text = "[Non-text content]"

\* C18: the fallback is attempted only when the primary channel is not
\* configured; with the primary channel configured no fallback is attempted,
\* whether the primary send succeeds, answers with another status than 200,
\* or raises.
C18_FallbackOnlyWhenUnconfigured ==
    \A h \in Handlers :
        /\ handler[h].fallback_calls >= 1 => ~bot_configured
        /\ bot_configured => handler[h].fallback = "unset"
        /\ handler[h].primary # "unset" => handler[h].fallback_calls = 0

C18_Witness ==
    \E h \in Handlers :
        /\ bot_configured
        /\ handler[h].pc = "done"
        /\ handler[h].primary = "failed"
        /\ handler[h].post_calls = 1
        /\ handler[h].sent = "no"
        /\ handler[h].fallback_calls = 0

\* C12: after set_current_query(q) returned True for a non-empty q, with no
\* other write in between, get_current_query() returns exactly q, characters
\* outside ASCII and characters json escapes included.
C12_QueryRoundTrip ==
    (store.pc = "idle" /\ store.result = "yes" /\ store.got.valid)
        => store.got.value = store.q

C12_Witness ==
    /\ store.pc = "idle"
    /\ store.result = "yes"
    /\ store.got.valid
    /\ store.q = <<EAcute, "\"">>
    /\ store.got.value = <<EAcute, "\"">>

\* C13: get_current_query returns the default query whenever the file is
\* absent or does not hold a complete document (complete: written to its end
\* by set_current_query and not opened for writing since); what it returns is
\* always a string.
C13_DefaultWhenUnreadable ==
    store.pc \in {"idle", "writing"} =>
        (store.got.valid =>
            /\ ~store.got.complete => store.got.value = DefaultQuery
            /\ store.got.value \in Seq(QueryChars \cup {DefaultQuery[i] : i \in DOMAIN DefaultQuery}))

C13_Witness ==
    /\ store.pc \in {"idle", "writing"}
    /\ store.got.valid
    /\ store.got.file.st = "present"
    /\ store.got.file.bytes # <<>>
    /\ ~store.got.complete
    /\ store.got.value = DefaultQuery

\* C17, as claimed: a reader concurrent with a write of the query file gets
\* the value from before the write or the value being written, never a third
\* value.
C17_WritesAtomicForReaders ==
    (store.pc \in {"idle", "writing"} /\ store.got.valid)
        => store.got.value \in {store.got.before, store.got.after}

\* four calls in a row on one name: add, add, remove, remove
AddAddRemoveRemove(i, x) ==
    /\ i + 3 <= Len(store.hist)
    /\ \A k \in 0..3 : store.hist[i + k].name = x
    /\ store.hist[i].op = "add" /\ store.hist[i + 1].op = "add"
    /\ store.hist[i + 2].op = "remove" /\ store.hist[i + 3].op = "remove"

WithoutLeadingMinus100(s) ==
    IF Len(s) >= 4 /\ SubSeq(s, 1, 4) = <<"-", "1", "0", "0">>
      THEN SubSeq(s, 5, Len(s)) ELSE s

\* C14: for a source with handle h and message id m the link is
\* https://t.me/{h}/{m}; for a source with no handle and id i it is
\* https://t.me/c/{i without its leading "-100"}/{m}.
C14_DeepLink ==
    probe.pc = "done" =>
        IF probe.chat.username \notin {Missing, NoneVal, ""}
          THEN /\ probe.link.some
               /\ probe.link.text =
                    <<"https://t.me/", probe.chat.username, "/">> \o IntStr(probe.message_id)
          ELSE probe.chat.has_id =>
               /\ probe.link.some
               /\ probe.link.text =
                    <<"https://t.me/c/">> \o WithoutLeadingMinus100(IntStr(probe.chat.id))
                    \o <<"/">> \o IntStr(probe.message_id)

C14_Witness ==
    /\ probe.pc = "done"
    /\ probe.chat.username = NoneVal
    /\ probe.chat.has_id
    /\ probe.chat.id = -1001100
    /\ probe.message_id = 3
    /\ probe.link.text = <<"https://t.me/c/", "1", "1", "0", "0", "/", "3">>

\* C20, as claimed: the name of the source is a string for every combination
\* of title and handle being there, not there, empty or null: the title when
\* there is one, else the handle, else "Unknown".
C20_NameResolution ==
    probe.pc = "done" =>
        /\ probe.chat_name \notin {Missing, NoneVal}
        /\ probe.chat_name =
             (IF probe.chat.title \notin {Missing, NoneVal, ""} THEN probe.chat.title
              ELSE IF probe.chat.username \notin {Missing, NoneVal, ""}
                THEN probe.chat.username
              ELSE "Unknown")

RunsBeside(h, g) ==
    /\ handler[g].pc = "oracle"
    /\ handler[h].pc \in {"get_chat", "oracle", "details", "sender", "post", "forward"}

\* what handler h did after its Oracle call follows the reply to its own call
OwnVerdict(h) ==
    LET r == handler[h]
    IN  r.relevant # "unset" =>
          /\ r.relevant = Bool(IsMessageRelevant(enabled, r.reply).result)
          /\ r.relevant = "no" => (r.pc = "done" /\ r.dispatch_calls = 0)
          /\ (r.relevant = "yes" /\ r.pc = "done") => r.dispatch_calls = 1

\* C16: two handlers for events of two different monitored sources do not
\* block each other: while one is suspended in its Oracle call the other can
\* take its next step; under fair scheduling every handler that is suspended
\* in its Oracle call returns; and each one dispatches or skips by the
\* verdict on the reply to its own call.
C16_ConcurrentHandlers ==
    /\ [](\A h \in ConcHandlers, g \in ConcHandlers :
            (h # g /\ RunsBeside(h, g)) => ENABLED HandlerStep(h))
    /\ [](\A h \in ConcHandlers : OwnVerdict(h))
    /\ \A h \in ConcHandlers : (handler[h].pc = "oracle") ~> (handler[h].pc = "done")

\* the handler created second has returned, with a dispatch, while the one
\* created first is still suspended in its Oracle call, both called with
\* different names
C16_Witness ==
    /\ handler[1].pc = "oracle"
    /\ handler[2].pc = "done"
    /\ handler[2].oracle_calls = 1
    /\ handler[2].relevant = "yes"
    /\ handler[2].dispatch_calls = 1
    /\ handler[1].chat_name # handler[2].chat_name

\* C21: in the validation pass a name whose lookup fails is left out and the
\* pass goes on: the set returned, and the monitored set, is exactly the set
\* of configured names whose lookup succeeded.
C21_ValidationPassSkipsFailures ==
    (store.pc = "called" /\ store.passed)
        => /\ store.added = store.channels \cap store.found
           /\ monitored_channels = store.channels \cap store.found

C21_Witness ==
    /\ store.pc = "called"
    /\ store.passed
    /\ store.channels = ConfigNames
    /\ store.found = {"Hadashot", "tests_tal"}
    /\ store.added = {"Hadashot", "tests_tal"}
    /\ mon = "running"

\* a dispatch through the configured primary channel that has returned
PrimaryDispatchReturned(h) ==
    /\ bot_configured
    /\ handler[h].dispatch_calls >= 1
    /\ handler[h].pc = "done"

\* C22, as claimed: with the primary channel configured every dispatch makes
\* exactly one sendMessage call, and reports delivered if and only if that
\* call answered with status 200 (primary = "ok").
C22_ExactlyOneSendMessage ==
    \A h \in Handlers :
        PrimaryDispatchReturned(h)
          => /\ handler[h].post_calls = 1
             /\ handler[h].sent = "yes" <=> handler[h].primary = "ok"

\* C23: one invocation of is_message_relevant makes one outbound call when
\* the Oracle is enabled and none when it is disabled, never more; a call
\* that raised is not made again and the invocation returns RELEVANT.
C23_OneOutboundCallNoRetry ==
    probe.pc = "returned" =>
        /\ probe.net <= 1
        /\ probe.net = 1 <=> (probe.cfg.langchain /\ probe.cfg.api_key /\ probe.cfg.ctor_ok)
        /\ (probe.net >= 1 /\ probe.kind = "raise") => probe.result = "yes"

C23_Witness ==
    /\ probe.pc = "returned"
    /\ probe.kind = "raise"
    /\ probe.net = 1
    /\ probe.result = "yes"

C25_NotificationQueryIsOracleQuery ==
    \A h \in Handlers :
        handler[h].post_calls >= 1 => handler[h].note_query = handler[h].query

\* C26: the message body of a notification is the text that was submitted to
\* the Oracle, also for a message with empty or absent text.
C26_NotificationBodyIsOracleText ==
    \A h \in Handlers :
        handler[h].post_calls >= 1 => handler[h].note_text = handler[h].oracle_text

\* C27: while the store file has never been written get_monitored_channels()
\* returns exactly the default list; the first successful add_channel(y) on
\* such a store persists the defaults together with y; a successful
\* remove_channel of the last stored name leaves the empty list, which is
\* what the next call reads: the defaults do not come back.
C27_DefaultListHandling ==
    /\ channelsFile.st = "absent"
         => GetMonitoredChannels(channelsFile) = DefaultChannels
    /\ \A i \in 1..Len(store.hist) :
         LET c == store.hist[i]
             next == IF i < Len(store.hist) THEN store.hist[i + 1].before
                     ELSE GetMonitoredChannels(channelsFile)
         IN  /\ c.absent => c.before = DefaultChannels
             /\ (c.absent /\ c.op = "add" /\ c.result)
                  => /\ c.after = DefaultChannels \cup {c.name}
                     /\ next = c.after
                     /\ i = Len(store.hist) => channelsFile = SaveChannels(c.after)
             /\ (c.op = "remove" /\ c.result /\ c.before = {c.name})
                  => c.after = {} /\ next = {}

C27_Witness ==
    /\ Len(store.hist) = 4
    /\ store.hist[1].absent /\ store.hist[1].before = DefaultChannels
    /\ store.hist[1].op = "add" /\ store.hist[1].name = "Hadashot" /\ store.hist[1].result
    /\ store.hist[1].after = {"TestsTal", "Hadashot"}
    /\ store.hist[2].op = "remove" /\ store.hist[2].name = "Hadashot" /\ store.hist[2].result
    /\ store.hist[3].op = "remove" /\ store.hist[3].name = "TestsTal" /\ store.hist[3].result
    /\ store.hist[3].after = {}
    /\ store.hist[4].op = "remove" /\ store.hist[4].before = {} /\ ~store.hist[4].result
    /\ GetMonitoredChannels(channelsFile) = {}

\* C28: every event from a source whose configured name was accepted by the
\* startup validation pass passes the membership test of the handler, also
\* when the source was configured by its handle and has a different title.
C28_AcceptedSourceIsMonitored ==
    \A h \in Handlers :
        (/\ handler[h].member # "unset"
         /\ \E n \in store.added : handler[h].chat \in SourceOf(n))
        => handler[h].member = "yes"

\* C29: once run_monitor has ended, whether no configured source resolved,
\* start() or the banner raised, the connection dropped or the run was
\* interrupted, the client is disconnected; and in a run where no configured
\* source resolved the handler was never installed: no event was taken up,
\* evaluated or dispatched.
C29_DisconnectedAfterRun ==
    /\ mon \in {"failed", "exited"} => ~connected
    /\ (store.passed /\ store.added = {})
         => /\ mon = "exited"
            /\ \A h \in Handlers :
                  /\ handler[h].pc = "idle"
                  /\ handler[h].oracle_calls = 0
                  /\ handler[h].dispatch_calls = 0

C29_Witness ==
    /\ store.given /\ store.passed
    /\ store.channels = {"Hadashot", "tests_tal"}
    /\ store.found = {"TestsTal"}
    /\ store.added = {}
    /\ mon = "exited"
    /\ ~connected
    /\ \A h \in Handlers : handler[h].pc = "idle"

\* C30: the list cli.run_monitor reads from the channel store is the list
\* handed to TelegramChannelMonitor.run_monitor, and the run gets as far as
\* the installed handler whenever at least one of the listed sources resolves.
C30_CliStartsMonitoring ==
    (store.entry = "cli" /\ store.pc = "called")
    => /\ store.given
       /\ store.channels = store.list
       /\ (store.passed /\ store.list \cap store.found # {})
            => (mon \in {"running", "exited"} /\ store.added # {})
====
